---- MODULE Spec2Model ----
(***************************************************************************)
(* History portal: the date-indexed event store (CSVHandler), the event    *)
(* source with online/offline fallback (APIHandler), and the image source  *)
(* with its cache file and daily quota counter (ImageHandler), and the     *)
(* handlers of the window that drive them (HistoryPortalGUI).              *)
(*                                                                         *)
(* Strings that the code formats or matches (dates, URLs) are sequences of *)
(* one-character strings, so that formatting and suffix matching are       *)
(* computed rather than assumed.                                           *)
(***************************************************************************)
EXTENDS Integers, Sequences, FiniteSets, TLC

VARIABLES
    online_mode,      \* APIHandler.online_mode
    events_csv,       \* data rows of database/events.csv, in file order
    last_events_call, \* observation of the last Event Source operation
    today,            \* the calendar day of datetime.now(), counted in days
    api_calls_left,   \* ImageHandler.api_calls_left (in memory)
    api_counter_file, \* cache/api_counter.json on disk
    image_cache_csv,  \* data rows of cache/images/image_cache.csv, in file order
    images_dir,       \* files of cache/images/downloaded: local path -> bytes
    last_image_call,  \* observation of the last Image Source operation
    is_online,        \* HistoryPortalGUI.is_online
    current_event,    \* HistoryPortalGUI.current_event: <<>> for None, else <<event>>
    event_text,       \* the content of the event_text widget
    image_canvas,     \* the image shown on image_canvas and the query it was fetched for
    pending,          \* the display_event calls suspended in window.update(), innermost last
    last_gui_call     \* observation of the last handler of the GUI

event_vars == <<online_mode, events_csv, last_events_call>>
image_vars == <<today, api_calls_left, api_counter_file, image_cache_csv,
                images_dir, last_image_call>>
gui_vars == <<is_online, current_event, event_text, image_canvas, pending,
              last_gui_call>>
vars == <<online_mode, events_csv, last_events_call, today, api_calls_left,
          api_counter_file, image_cache_csv, images_dir, last_image_call,
          is_online, current_event, event_text, image_canvas, pending,
          last_gui_call>>

----------------------------------------------------------------------------
(* Text helpers *)

DigitChars == <<"0", "1", "2", "3", "4", "5", "6", "7", "8", "9">>

DigitChar(d) == DigitChars[d + 1]

\* The decimal digits of a natural number, as str(n) gives them.
RECURSIVE IntStr(_)
IntStr(n) == IF n < 10 THEN <<DigitChar(n)>>
             ELSE IntStr(n \div 10) \o <<DigitChar(n % 10)>>

\* f"{n:02d}": at least two digits, padded with a zero on the left.
Format02d(n) == IF n < 10 THEN <<"0">> \o IntStr(n) ELSE IntStr(n)

\* str.endswith
EndsWith(s, suffix) ==
    /\ Len(s) >= Len(suffix)
    /\ SubSeq(s, Len(s) - Len(suffix) + 1, Len(s)) = suffix

----------------------------------------------------------------------------
(* Bounds and input domains of the event side *)

MaxEventRows == 6

\* (month, day) pairs the user may ask for
Dates == {<<7, 20>>, <<11, 2>>}

\* datetime.now().year at the time of a fetch
FetchYears == {2025, 2026}

Absent == "absent"

\* items of the event provider's JSON; a missing key is Absent
ApiItems == <<[year |-> "1969", text |-> "Apollo 11 lands"],
              [year |-> "1066", text |-> "Battle, of Hastings"],
              [year |-> "1969", text |-> Absent],
              [year |-> Absent, text |-> "No year"]>>

\* What requests.get + response.json() can produce for the event provider
EventResponses ==
    { [kind |-> "exception", items |-> <<>>],
      [kind |-> "non200", items |-> <<>>],
      [kind |-> "badformat", items |-> <<>>],
      [kind |-> "badjson", items |-> <<>>],
      [kind |-> "ok", items |-> <<>>],
      [kind |-> "ok", items |-> <<ApiItems[1]>>],
      [kind |-> "ok", items |-> <<ApiItems[2], ApiItems[3], ApiItems[1]>>],
      [kind |-> "ok", items |-> <<ApiItems[4], ApiItems[2]>>] }

\* which append of a save fails with an I/O error: the n-th, or none (0)
AppendFailures == {0, 1, 2}

\* the provider was not asked
NoAnswer == [kind |-> "none", items |-> <<>>]

----------------------------------------------------------------------------
(* CSVHandler *)

\* date_pattern = f"-{int(month):02d}-{int(day):02d}"
date_pattern(month, day) ==
    <<"-">> \o Format02d(month) \o <<"-">> \o Format02d(day)

\* SelectRows with the matching rows in reverse file order
RECURSIVE SelectRows_newest_first(_, _, _)
SelectRows_newest_first(rows, month, day) ==
    IF rows = <<>> THEN <<>>
    ELSE LET rest == SelectRows_newest_first(Tail(rows), month, day)
         IN  IF EndsWith(Head(rows).Date, date_pattern(month, day))
             THEN rest \o <<Head(rows)>>
             ELSE rest

\* the rows of a sequence that satisfy a test, in order
RECURSIVE SelectRows(_, _, _)
SelectRows(rows, month, day) ==
    IF rows = <<>> THEN <<>>
    ELSE LET rest == SelectRows(Tail(rows), month, day)
         IN  IF EndsWith(Head(rows).Date, date_pattern(month, day))
             THEN <<Head(rows)>> \o rest
             ELSE rest

\* get_events_by_date without the date filter: every row is returned
CSV_get_events_unfiltered(rows, month, day) ==
    [i \in 1..Len(rows) |-> [year |-> rows[i].Year, text |-> rows[i].Description]]

\* CSVHandler.get_events_by_date: scan, filter by suffix, project
CSV_get_events_by_date(rows, month, day) ==
    LET hit == SelectRows(rows, month, day)
    IN  [i \in 1..Len(hit) |-> [year |-> hit[i].Year, text |-> hit[i].Description]]

\* check_date_exists with a pattern that is not zero-padded
check_date_exists_unpadded(rows, month, day) ==
    \E i \in 1..Len(rows) :
        EndsWith(rows[i].Date, <<"-">> \o IntStr(month) \o <<"-">> \o IntStr(day))

\* check_date_exists that never finds the date
check_date_exists_never(rows, month, day) == FALSE

\* CSVHandler.check_date_exists
check_date_exists(rows, month, day) ==
    \E i \in 1..Len(rows) : EndsWith(rows[i].Date, date_pattern(month, day))

\* CSVHandler.get_events_by_date on the store file: a file that does not
\* exist is not opened and gives no event
CSVHandler_get_events_by_date(file_exists, rows, month, day) ==
    IF file_exists THEN CSV_get_events_by_date(rows, month, day) ELSE <<>>

\* CSVHandler.check_date_exists on the store file
CSVHandler_check_date_exists(file_exists, rows, month, day) ==
    file_exists /\ check_date_exists(rows, month, day)

\* the observation a Record Store operation leaves
StoreObservation(op, file_exists, month, day, result) ==
    [op |-> op, file_exists |-> file_exists, month |-> month, day |-> day,
     result |-> result]

\* get_random_event without "if not reader" and without the try block:
\* random.choice raises on a store without rows
CSV_get_random_event_unguarded(rows, pick) ==
    IF rows = <<>> THEN [event |-> <<>>, raised |-> TRUE]
    ELSE [event |-> <<[year |-> rows[pick].Year,
                       text |-> rows[pick].Description]>>,
          raised |-> FALSE]

\* CSVHandler.get_random_event: None (the empty sequence) on a store without
\* rows, else the row random.choice picks
CSV_get_random_event(rows, pick) ==
    IF rows = <<>> THEN [event |-> <<>>, raised |-> FALSE]
    ELSE [event |-> <<[year |-> rows[pick].Year,
                       text |-> rows[pick].Description]>>,
          raised |-> FALSE]

\* add_event that opens the file for writing instead of appending
add_event_truncating(rows, date, year, title, description) ==
    <<[Date |-> date, Year |-> year, Title |-> title,
       Description |-> description]>>

\* CSVHandler.add_event: one row appended
add_event(rows, date, year, title, description) ==
    Append(rows, [Date |-> date, Year |-> year, Title |-> title,
                  Description |-> description])

\* CSVHandler.save_api_events: one add_event per event, in order
RECURSIVE save_api_events(_, _, _, _, _)
save_api_events(rows, nowYear, month, day, events) ==
    IF events = <<>> THEN rows
    ELSE LET date == IntStr(nowYear) \o <<"-">> \o Format02d(month)
                       \o <<"-">> \o Format02d(day)
             e == Head(events)
         IN  save_api_events(
                 add_event(rows, date, e.year, <<"Event from ", e.year>>, e.text),
                 nowYear, month, day, Tail(events))

----------------------------------------------------------------------------
(* APIHandler *)

\* the loop with a test of "year" only: an item without text is kept
RECURSIVE MapApiEvents_year_only(_, _, _)
MapApiEvents_year_only(items, month, day) ==
    IF items = <<>> THEN <<>>
    ELSE LET it == Head(items)
             rest == MapApiEvents_year_only(Tail(items), month, day)
         IN  IF it.year # Absent
             THEN <<[year |-> it.year, text |-> it.text,
                     day |-> day, month |-> month]>> \o rest
             ELSE rest

\* the loop of get_events_by_date over data["data"]["Events"]
RECURSIVE MapApiEvents(_, _, _)
MapApiEvents(items, month, day) ==
    IF items = <<>> THEN <<>>
    ELSE LET it == Head(items)
             rest == MapApiEvents(Tail(items), month, day)
         IN  IF it.year # Absent /\ it.text # Absent
             THEN <<[year |-> it.year, text |-> it.text,
                     day |-> day, month |-> month]>> \o rest
             ELSE rest

\* the observation an Event Source operation leaves: what it returned, the
\* requests it issued, the provider's answer, whether an append failed and
\* whether an exception reached the caller
EventsObservation(op, month, day, result, net, answer, store_error, raised) ==
    [op |-> op, month |-> month, day |-> day, result |-> result, net |-> net,
     answer |-> answer, store_error |-> store_error, raised |-> raised]

\* what get_events_by_date returns and leaves in the store when no request
\* is made: the stored events of the date
FromStore(rows, month, day) ==
    [result |-> CSV_get_events_by_date(rows, month, day), rows |-> rows,
     net |-> 0, answer |-> NoAnswer, store_error |-> FALSE, raised |-> FALSE]

\* the try block with an except clause for request errors only: a body
\* that is not JSON raises to the caller
fetch_events_uncaught_json(rows, month, day, resp, nowYear, fail_at) ==
    [result |-> <<>>, rows |-> rows, net |-> 1, answer |-> resp,
     store_error |-> FALSE, raised |-> resp.kind = "badjson"]

\* the try block of get_events_by_date: the request, the mapping and the
\* save; every exception, the one of a failed append included, ends in
\* "return []". fail_at is the append that fails (0: none).
fetch_events(rows, month, day, resp, nowYear, fail_at) ==
    IF resp.kind # "ok"
    THEN [result |-> <<>>, rows |-> rows, net |-> 1, answer |-> resp,
          store_error |-> FALSE, raised |-> FALSE]
    ELSE IF fail_at \in 1..Len(MapApiEvents(resp.items, month, day))
    THEN [result |-> <<>>,
          rows |-> save_api_events(rows, nowYear, month, day,
                       SubSeq(MapApiEvents(resp.items, month, day),
                              1, fail_at - 1)),
          net |-> 1, answer |-> resp, store_error |-> TRUE, raised |-> FALSE]
    ELSE [result |-> MapApiEvents(resp.items, month, day),
          rows |-> save_api_events(rows, nowYear, month, day,
                       MapApiEvents(resp.items, month, day)),
          net |-> 1, answer |-> resp, store_error |-> FALSE, raised |-> FALSE]

\* APIHandler.get_events_by_date as a function of the mode and the store
get_events_by_date(online, rows, month, day, resp, nowYear, fail_at) ==
    IF ~online THEN FromStore(rows, month, day)
    ELSE IF check_date_exists(rows, month, day) THEN FromStore(rows, month, day)
    ELSE fetch_events(rows, month, day, resp, nowYear, fail_at)

\* APIHandler.get_events_by_date(month, day); resp is the provider's answer,
\* nowYear the clock's year and fail_at the failing append, all read only
\* when the network is used.
API_get_events_by_date(month, day, resp, nowYear, fail_at) ==
    \E r \in {get_events_by_date(online_mode, events_csv, month, day, resp,
                                 nowYear, fail_at)} :
        /\ Len(r.rows) <= MaxEventRows
        /\ events_csv' = r.rows
        /\ last_events_call' =
               EventsObservation("get_events_by_date", month, day, r.result,
                                 r.net, r.answer, r.store_error, r.raised)
        /\ UNCHANGED online_mode
        /\ UNCHANGED image_vars

\* APIHandler.get_random_event: offline a random stored row; online the
\* events of a random date, one of them picked by random.choice. The result
\* is a sequence of at most one event, empty for None.
API_get_random_event(month, day, resp, nowYear, fail_at, pick) ==
    IF ~online_mode
    THEN /\ events_csv # <<>> => pick \in 1..Len(events_csv)
         /\ last_events_call' =
                EventsObservation("get_random_event", 0, 0,
                    CSV_get_random_event(events_csv, pick).event,
                    0, NoAnswer, FALSE,
                    CSV_get_random_event(events_csv, pick).raised)
         /\ UNCHANGED <<online_mode, events_csv>>
         /\ UNCHANGED image_vars
    ELSE \E r \in {get_events_by_date(online_mode, events_csv, month, day,
                                      resp, nowYear, fail_at)} :
         /\ Len(r.rows) <= MaxEventRows
         /\ r.result # <<>> => pick \in 1..Len(r.result)
         /\ events_csv' = r.rows
         /\ last_events_call' =
                EventsObservation("get_random_event", month, day,
                                  IF r.result = <<>> THEN <<>>
                                  ELSE <<r.result[pick]>>,
                                  r.net, r.answer, r.store_error, r.raised)
         /\ UNCHANGED online_mode
         /\ UNCHANGED image_vars

\* the observation of an operation that asks for no events
NoEventsCall(op, net) ==
    EventsObservation(op, 0, 0, <<>>, net, NoAnswer, FALSE, FALSE)

\* APIHandler.check_internet: the probe succeeds or not
check_internet(connected) ==
    /\ online_mode' = connected
    /\ last_events_call' = NoEventsCall("check_internet", 1)
    /\ UNCHANGED events_csv
    /\ UNCHANGED image_vars

\* APIHandler.__init__ on an existing store (application restart):
\* init_csv leaves an existing file alone
APIHandler_init ==
    /\ online_mode' = TRUE
    /\ last_events_call' = NoEventsCall("init", 0)
    /\ UNCHANGED events_csv
    /\ UNCHANGED image_vars

----------------------------------------------------------------------------
(* Bounds and input domains of the image side *)

\* the daily maximum load_api_counter resets to
DailyMax == 95

\* 7 days: the age limit of _cleanup_old_images and of a cache entry
TTLDays == 7

\* the clock runs from day 0 to day MaxDay
MaxDay == 8

\* the days on which something happens: the first day, the day after, and
\* the days more than TTLDays after the first
ClockDays == {d \in 0..MaxDay : d <= 1 \/ d > TTLDays}

\* a first start may find a counter file left by an earlier run of the same
\* day, holding 0..MaxStartCalls; the model follows at most MaxUsed decrements
\* below the daily maximum
MaxStartCalls == 2
MaxUsed == 1

\* the counter file: missing, or holding the two JSON fields
AbsentFile == [state |-> "absent", last_reset |-> 0, calls_left |-> 0]

\* Python's None where a URL, a path, a query or image data is expected
NoUrl == <<>>
NoPath == <<>>
NoImage == <<>>

\* an item of the search response; has_link is whether it carries 'link'
Item(url) == [has_link |-> TRUE, link |-> url]
NoLinkItem == [has_link |-> FALSE, link |-> NoUrl]

\* the search queries display_event builds: f"{event['year']} {event['text']}"
Queries == {<<"1969", " ", "Apollo 11 lands">>, <<"1066", " ", "Battle, of Hastings">>}

\* candidate links of the image search, as the pieces of the URL text
UrlA == <<"https://img.example/", "apollo", ".png">>
UrlB == <<"https://img.example/", "moon", ".PNG">>
UrlJ == <<"https://img.example/", "moon", ".jpg">>
UrlQ == <<"https://img.example/", "hastings", ".png", "?", "w=640">>

\* What requests.get + response.json() can produce for the image search
SearchResponses ==
    { [kind |-> "exception", items |-> <<>>],
      [kind |-> "non200", items |-> <<>>],
      [kind |-> "badjson", items |-> <<>>],
      [kind |-> "noitems", items |-> <<>>],
      [kind |-> "ok", items |-> <<Item(UrlJ), Item(UrlQ)>>],
      [kind |-> "ok", items |-> <<Item(UrlJ), Item(UrlA), Item(UrlB)>>],
      [kind |-> "ok", items |-> <<Item(UrlB), NoLinkItem>>] }

\* the sets of URLs whose streamed download answers 200
DownloadOutcomes == { {}, {UrlB}, {UrlA, UrlB, UrlQ} }

\* the outcomes of the plain GET of get_image_base64
GetOutcomes == {"ok", "non200", "exception"}

\* response.content / response.raw of a GET of the URL
RemoteContent(url) == <<"bytes of", url>>

\* base64.b64encode(content).decode('utf-8')
Base64(content) == <<"base64", content>>

----------------------------------------------------------------------------
(* ImageHandler: the quota counter *)

\* the file a successful save writes
CounterFile(calls_left, now) ==
    [state |-> "ok", last_reset |-> now, calls_left |-> calls_left]

\* ImageHandler.save_api_counter: the file a save leaves; a failing write is
\* printed and the file stays as it was
save_api_counter(file, calls_left, now, saveFails) ==
    IF saveFails THEN file ELSE CounterFile(calls_left, now)

\* ImageHandler.load_api_counter: the counter and the file after the load.
\* readFails is an exception while opening or parsing an existing file.
load_api_counter(file, now, readFails, saveFails) ==
    IF file.state = "absent"
    THEN [calls_left |-> DailyMax,
          file |-> save_api_counter(file, DailyMax, now, saveFails)]
    ELSE IF readFails
    THEN [calls_left |-> DailyMax,
          file |-> save_api_counter(file, DailyMax, now, saveFails)]
    ELSE IF file.last_reset < now
    THEN [calls_left |-> DailyMax,
          file |-> save_api_counter(file, DailyMax, now, saveFails)]
    ELSE [calls_left |-> file.calls_left, file |-> file]

\* ImageHandler.decrease_api_counter: the counter and the file afterwards
decrease_api_counter(calls_left, file, now, saveFails) ==
    IF calls_left > 0
    THEN [calls_left |-> calls_left - 1,
          file |-> save_api_counter(file, calls_left - 1, now, saveFails)]
    ELSE [calls_left |-> calls_left, file |-> file]

----------------------------------------------------------------------------
(* ImageHandler: the image cache *)

NoRow == [query |-> <<>>, url |-> NoUrl, timestamp |-> 0, local_path |-> NoPath]

\* _get_cached_url returning the last row of the query instead of the first
RECURSIVE get_cached_url_last(_, _)
get_cached_url_last(rows, query) ==
    IF rows = <<>> THEN NoRow
    ELSE IF rows[Len(rows)].query = query THEN rows[Len(rows)]
    ELSE get_cached_url_last(SubSeq(rows, 1, Len(rows) - 1), query)

\* ImageHandler._get_cached_url: the first row of the query, or NoRow
RECURSIVE get_cached_url(_, _)
get_cached_url(rows, query) ==
    IF rows = <<>> THEN NoRow
    ELSE IF Head(rows).query = query THEN Head(rows)
    ELSE get_cached_url(Tail(rows), query)

\* ImageHandler._cache_url
cache_url(rows, query, url, local_path, now) ==
    Append(rows, [query |-> query, url |-> url, timestamp |-> now,
                  local_path |-> local_path])

\* str.lower on the pieces of a URL
LowerPiece(piece) == IF piece = ".PNG" THEN ".png" ELSE piece

Lower(url) == [i \in 1..Len(url) |-> LowerPiece(url[i])]

\* the test of get_image_url on a candidate link
LinkIsPng(url) == EndsWith(Lower(url), <<".png">>)

\* a filename made of the time alone
download_path_by_time(now, calls_left) == <<"image", now, 0>>

\* the filename _download_image generates
download_path(now, calls_left) == <<"image", now, calls_left>>

\* the loop of get_image_url over data['items']: the first link that passes
\* the test and downloads; tried counts the download requests issued
RECURSIVE ScanItems(_, _, _)
ScanItems(items, downloadable, tried) ==
    IF items = <<>> THEN [kind |-> "none", url |-> NoUrl, tried |-> tried]
    ELSE IF ~Head(items).has_link
    THEN [kind |-> "exception", url |-> NoUrl, tried |-> tried]
    ELSE IF LinkIsPng(Head(items).link)
    THEN IF Head(items).link \in downloadable
         THEN [kind |-> "found", url |-> Head(items).link, tried |-> tried + 1]
         ELSE ScanItems(Tail(items), downloadable, tried + 1)
    ELSE ScanItems(Tail(items), downloadable, tried)

\* the values get_image_url returns: a pair, (None, None), or a bare None
Pair(url, local_path) == [kind |-> "pair", url |-> url, local_path |-> local_path]
NonePair == Pair(NoUrl, NoPath)
BareNone == [kind |-> "none", url |-> NoUrl, local_path |-> NoPath]

\* the state get_image_url leaves when it changes nothing
ImageUnchanged(ret, searches) ==
    [ret |-> ret, calls_left |-> api_calls_left, file |-> api_counter_file,
     cache |-> image_cache_csv, dir |-> images_dir,
     searches |-> searches, downloads |-> 0]

\* get_image_url after a search answered 200: the counter is decreased (dec),
\* then the items are scanned (scan) and the first usable link is downloaded
\* and cached
AfterSearch(query, resp, dec, scan, path) ==
    IF resp.kind = "ok" /\ scan.kind = "found"
    THEN [ret |-> Pair(scan.url, path),
          calls_left |-> dec.calls_left, file |-> dec.file,
          cache |-> cache_url(image_cache_csv, query, scan.url, path, today),
          dir |-> [p \in DOMAIN images_dir \cup {path} |->
                      IF p = path THEN RemoteContent(scan.url)
                      ELSE images_dir[p]],
          searches |-> 1, downloads |-> scan.tried]
    ELSE [ret |-> NonePair,
          calls_left |-> dec.calls_left, file |-> dec.file,
          cache |-> image_cache_csv, dir |-> images_dir,
          searches |-> 1,
          downloads |-> IF resp.kind = "ok" THEN scan.tried ELSE 0]

\* the counter after the decrement of a search answered 200
SearchDecrement(saveFails) ==
    decrease_api_counter(api_calls_left, api_counter_file, today, saveFails)

\* a cache hit that counts against the quota
CacheHit_counted(row) ==
    [ret |-> Pair(row.url, row.local_path),
     calls_left |-> SearchDecrement(FALSE).calls_left,
     file |-> SearchDecrement(FALSE).file,
     cache |-> image_cache_csv, dir |-> images_dir,
     searches |-> 0, downloads |-> 0]

\* get_image_url when the cache holds a row for the query
CacheHit(row) == ImageUnchanged(Pair(row.url, row.local_path), 0)

\* get_image_url without the check of the API limit
get_image_url_unchecked(query, resp, downloadable, saveFails) ==
    IF get_cached_url(image_cache_csv, query) # NoRow
    THEN CacheHit(get_cached_url(image_cache_csv, query))
    ELSE IF resp.kind = "exception" THEN ImageUnchanged(NonePair, 1)
    ELSE IF resp.kind = "non200" THEN ImageUnchanged(BareNone, 1)
    ELSE AfterSearch(query, resp, SearchDecrement(saveFails),
                     ScanItems(resp.items, downloadable, 0),
                     download_path(today, SearchDecrement(saveFails).calls_left))

\* get_image_url with the counter decreased before the status is tested
get_image_url_count_first(query, resp, downloadable, saveFails) ==
    IF api_calls_left <= 0 THEN ImageUnchanged(NonePair, 0)
    ELSE IF get_cached_url(image_cache_csv, query) # NoRow
    THEN CacheHit(get_cached_url(image_cache_csv, query))
    ELSE IF resp.kind = "exception" THEN ImageUnchanged(NonePair, 1)
    ELSE IF resp.kind = "non200"
    THEN [ret |-> BareNone,
          calls_left |-> SearchDecrement(saveFails).calls_left,
          file |-> SearchDecrement(saveFails).file,
          cache |-> image_cache_csv, dir |-> images_dir,
          searches |-> 1, downloads |-> 0]
    ELSE AfterSearch(query, resp, SearchDecrement(saveFails),
                     ScanItems(resp.items, downloadable, 0),
                     download_path(today, SearchDecrement(saveFails).calls_left))

\* ImageHandler.get_image_url: what it returns and the state it leaves
get_image_url(query, resp, downloadable, saveFails) ==
    IF api_calls_left <= 0 THEN ImageUnchanged(NonePair, 0)
    ELSE IF get_cached_url(image_cache_csv, query) # NoRow
    THEN CacheHit(get_cached_url(image_cache_csv, query))
    ELSE IF resp.kind = "exception" THEN ImageUnchanged(NonePair, 1)
    ELSE IF resp.kind = "non200" THEN ImageUnchanged(BareNone, 1)
    ELSE AfterSearch(query, resp, SearchDecrement(saveFails),
                     ScanItems(resp.items, downloadable, 0),
                     download_path(today, SearchDecrement(saveFails).calls_left))

\* the status of the search request as get_image_url sees it
SearchStatus(resp) ==
    IF resp.kind \in {"exception", "non200"} THEN resp.kind ELSE "200"

\* the quota values the model follows
InQuotaWindow(calls_left) ==
    calls_left <= MaxStartCalls \/ calls_left >= DailyMax - MaxUsed

\* get_image_base64 without its try block: unpacking a bare None raises to
\* the caller
image_data_untried(ret, get) ==
    IF ret.kind = "none"
    THEN [result |-> NoImage, gets |-> 0, raised |-> TRUE]
    ELSE IF ret.url = NoUrl
    THEN [result |-> NoImage, gets |-> 0, raised |-> FALSE]
    ELSE [result |-> IF get = "ok" THEN Base64(RemoteContent(ret.url))
                     ELSE NoImage,
          gets |-> 1, raised |-> FALSE]

\* the body of get_image_base64 after get_image_url returned ret: the
\* unpacking "image_url, local_path = ret" raises TypeError on a bare None,
\* which the except clause turns into None; a pair without URL gives None;
\* else the URL is requested and its content encoded
image_data(ret, get) ==
    IF ret.kind = "none"
    THEN [result |-> NoImage, gets |-> 0, raised |-> FALSE]
    ELSE IF ret.url = NoUrl
    THEN [result |-> NoImage, gets |-> 0, raised |-> FALSE]
    ELSE [result |-> IF get = "ok" THEN Base64(RemoteContent(ret.url))
                     ELSE NoImage,
          gets |-> 1, raised |-> FALSE]

\* ImageHandler.get_image_base64(query)
get_image_base64(query, resp, downloadable, get, saveFails) ==
    \E r \in {get_image_url(query, resp, downloadable, saveFails)} :
    \E data \in {image_data(r.ret, get)} :
        /\ InQuotaWindow(r.calls_left)
        /\ api_calls_left' = r.calls_left
        /\ api_counter_file' = r.file
        /\ image_cache_csv' = r.cache
        /\ images_dir' = r.dir
        /\ last_image_call' =
               [op |-> "get_image_base64", query |-> query,
                result |-> data.result,
                url_result |-> r.ret, value |-> r.calls_left,
                search_status |-> IF r.searches = 1 THEN SearchStatus(resp)
                                  ELSE "none",
                candidates |-> IF r.searches = 1 /\ resp.kind = "ok"
                               THEN resp.items ELSE <<>>,
                downloadable |-> IF r.searches = 1 /\ resp.kind = "ok"
                                 THEN downloadable ELSE {},
                searches |-> r.searches, downloads |-> r.downloads,
                gets |-> data.gets, raised |-> data.raised]
        /\ UNCHANGED today
        /\ UNCHANGED event_vars

\* the observation of an operation that resolves no image
NoImageCall(op, value) ==
    [op |-> op, query |-> <<>>, result |-> NoImage, url_result |-> NonePair,
     value |-> value, search_status |-> "none",
     candidates |-> <<>>, downloadable |-> {},
     searches |-> 0, downloads |-> 0, gets |-> 0, raised |-> FALSE]

\* ImageHandler.get_api_calls_left
get_api_calls_left ==
    /\ last_image_call' = NoImageCall("get_api_calls_left", api_calls_left)
    /\ UNCHANGED <<today, api_calls_left, api_counter_file, image_cache_csv,
                   images_dir>>
    /\ UNCHANGED event_vars

\* ImageHandler.__init__ on the files an earlier run left (application
\* restart): load_api_counter, cleanup_images, _init_csv_cache
ImageHandler_init(readFails, saveFails) ==
    \E loaded \in {load_api_counter(api_counter_file, today, readFails,
                                     saveFails)} :
        /\ api_calls_left' = loaded.calls_left
        /\ api_counter_file' = loaded.file
        /\ images_dir' = <<>>
        /\ last_image_call' = NoImageCall("init", loaded.calls_left)
        /\ UNCHANGED <<today, image_cache_csv>>
        /\ UNCHANGED event_vars

\* time passes, while the application runs or rests, until a later day
NextDay(day) ==
    /\ day > today
    /\ today' = day
    /\ last_image_call' = NoImageCall("midnight", api_calls_left)
    /\ UNCHANGED <<api_calls_left, api_counter_file, image_cache_csv, images_dir>>
    /\ UNCHANGED event_vars

\* the counter files a first start may find
InitCounterFiles ==
    {AbsentFile} \cup {CounterFile(c, 0) : c \in 0..MaxStartCalls}

----------------------------------------------------------------------------
(* HistoryPortalGUI *)

\* how many display_event calls may be suspended in window.update() at once
MaxNesting == 2

\* an empty canvas: image_canvas.delete("all")
NoCanvas == [query |-> <<>>, image |-> NoImage]

\* the search query display_event builds: f"{event['year']} {event['text']}"
QueryOf(event) == <<event.year, " ", event.text>>

\* what display_event writes into the text widget
EventText(event) == <<event.year, " - ", event.text>>

NoEventsText == <<"No events found for this date">>

\* the observation a handler of the GUI leaves: the event that was current
\* when it started, the events it was given for that event's date, and
\* whether it ended in an exception (Tk reports it and goes on)
GuiObservation(op, before, siblings, raised) ==
    [op |-> op, before |-> before, siblings |-> siblings, raised |-> raised]

NoGuiCall(op) == GuiObservation(op, <<>>, <<>>, FALSE)

\* display_event up to window.update(): the event becomes the current one,
\* its text is shown and, when the GUI is online, the call is suspended in
\* window.update() with the image still to fetch. Tk runs the handlers of
\* the events that are waiting from inside that call.
display_event_begin(event, online) ==
    /\ current_event' = <<event>>
    /\ event_text' = EventText(event)
    /\ pending' = IF online THEN Append(pending, QueryOf(event)) ELSE pending

\* HistoryPortalGUI.find_events, up to the window.update() of display_event
find_events(month, day, resp, nowYear, fail_at) ==
    /\ Len(pending) < MaxNesting
    /\ API_get_events_by_date(month, day, resp, nowYear, fail_at)
    /\ IF last_events_call'.result = <<>>
       THEN /\ event_text' = NoEventsText
            /\ UNCHANGED <<current_event, pending>>
       ELSE display_event_begin(last_events_call'.result[1], is_online)
    /\ last_gui_call' = NoGuiCall("find_events")
    /\ UNCHANGED <<is_online, image_canvas>>

\* HistoryPortalGUI.toggle_online_mode, up to the window.update() of
\* display_event: only the GUI's flag changes, APIHandler.online_mode is not
\* touched
toggle_online_mode ==
    /\ Len(pending) < MaxNesting
    /\ is_online' = ~is_online
    /\ image_canvas' = NoCanvas
    /\ IF current_event = <<>>
       THEN UNCHANGED <<current_event, event_text, pending>>
       ELSE display_event_begin(current_event[1], ~is_online)
    /\ last_gui_call' = NoGuiCall("toggle_online_mode")
    /\ UNCHANGED event_vars
    /\ UNCHANGED image_vars

\* list.index(value): the first position holding an equal value, 0 when
\* there is none (the code raises ValueError)
IndexOf(events, event) ==
    IF \E i \in 1..Len(events) : events[i] = event
    THEN CHOOSE i \in 1..Len(events) :
             /\ events[i] = event
             /\ \A j \in 1..(i - 1) : events[j] # event
    ELSE 0

\* HistoryPortalGUI.next_event, up to the window.update() of display_event.
\* current_event['month'] raises KeyError on an event without that key and
\* events.index raises ValueError when no returned event equals the current
\* one; neither is caught, so the handler ends there.
next_event(resp, nowYear, fail_at) ==
    /\ Len(pending) < MaxNesting
    /\ current_event # <<>>
    /\ IF "month" \notin DOMAIN current_event[1]
       THEN /\ last_gui_call' =
                   GuiObservation("next_event", current_event, <<>>, TRUE)
            /\ UNCHANGED <<current_event, event_text, pending>>
            /\ UNCHANGED event_vars
            /\ UNCHANGED image_vars
       ELSE /\ API_get_events_by_date(current_event[1].month,
                                      current_event[1].day,
                                      resp, nowYear, fail_at)
            /\ \E events \in {last_events_call'.result} :
               \E current_index \in {IndexOf(events, current_event[1])} :
                  /\ last_gui_call' =
                         GuiObservation("next_event", current_event, events,
                                        events # <<>> /\ current_index = 0)
                  /\ IF current_index > 0 /\ current_index < Len(events)
                     THEN display_event_begin(events[current_index + 1],
                                              is_online)
                     ELSE UNCHANGED <<current_event, event_text, pending>>
    /\ UNCHANGED <<is_online, image_canvas>>

\* display_event after window.update() returns: the innermost suspended
\* call fetches the image of its own query and display_image shows it, or
\* clears the canvas when there is none
display_event_resume(resp, downloadable, get) ==
    /\ pending # <<>>
    /\ get_image_base64(pending[Len(pending)], resp, downloadable, get, FALSE)
    /\ image_canvas' =
           IF last_image_call'.result = NoImage THEN NoCanvas
           ELSE [query |-> pending[Len(pending)],
                 image |-> last_image_call'.result]
    /\ pending' = SubSeq(pending, 1, Len(pending) - 1)
    /\ last_gui_call' = NoGuiCall("display_event")
    /\ UNCHANGED <<is_online, current_event, event_text>>

----------------------------------------------------------------------------
Init ==
    /\ online_mode = TRUE
    /\ events_csv = <<>>
    /\ last_events_call = NoEventsCall("init", 0)
    /\ today = 0
    /\ \E file \in InitCounterFiles :
          LET loaded == load_api_counter(file, 0, FALSE, FALSE)
          IN  /\ api_calls_left = loaded.calls_left
              /\ api_counter_file = loaded.file
              /\ last_image_call = NoImageCall("init", loaded.calls_left)
    /\ image_cache_csv = <<>>
    /\ images_dir = <<>>
    /\ is_online = TRUE
    /\ current_event = <<>>
    /\ event_text = <<>>
    /\ image_canvas = NoCanvas
    /\ pending = <<>>
    /\ last_gui_call = NoGuiCall("init")

\* the inputs of a call that the call does not read are fixed: the answer
\* of a provider that is not asked, the clock and the failing append of a
\* save that does not happen
EventInputsRead(month, day, resp, nowYear, fail_at) ==
    /\ (~online_mode \/ check_date_exists(events_csv, month, day))
           => resp.kind = "exception"
    /\ resp.items = <<>> => (nowYear = 2025 /\ fail_at = 0)
    /\ fail_at <= Len(resp.items)

EventsCall ==
    \E d \in Dates : \E resp \in EventResponses : \E y \in FetchYears :
    \E fail_at \in AppendFailures :
        /\ EventInputsRead(d[1], d[2], resp, y, fail_at)
        /\ API_get_events_by_date(d[1], d[2], resp, y, fail_at)
        /\ UNCHANGED gui_vars

RandomCall ==
    \E d \in Dates : \E resp \in EventResponses : \E y \in FetchYears :
    \E fail_at \in AppendFailures :
        /\ ~online_mode => d = <<7, 20>>
        /\ EventInputsRead(d[1], d[2], resp, y, fail_at)
        /\ \E pick \in 1..MaxEventRows :
              API_get_random_event(d[1], d[2], resp, y, fail_at, pick)
        /\ UNCHANGED gui_vars

ProbeInternet == \E c \in BOOLEAN : check_internet(c) /\ UNCHANGED gui_vars

EventsRestart == APIHandler_init /\ UNCHANGED gui_vars

NextEvents ==
    \/ EventsCall
    \/ RandomCall
    \/ ProbeInternet
    \/ EventsRestart

SpecEvents == Init /\ [][NextEvents]_vars

\* the inputs of a call that the call does not read are fixed: the answer
\* of a search that is not issued, the downloads of a response without
\* items, the save of a search that is not answered 200
ImageInputsRead(query, resp, downloadable, saveFails) ==
    /\ (api_calls_left <= 0 \/ get_cached_url(image_cache_csv, query) # NoRow)
           => resp.kind = "exception"
    /\ resp.items = <<>> => downloadable = {}
    /\ resp.kind \in {"exception", "non200"} => ~saveFails

\* an imageFor call; saves is whether the write of the counter file may fail
ImageCallWith(saves) ==
    \E q \in Queries : \E resp \in SearchResponses :
    \E dl \in DownloadOutcomes : \E saveFails \in saves :
        /\ ImageInputsRead(q, resp, dl, saveFails)
        /\ \E g \in GetOutcomes : get_image_base64(q, resp, dl, g, saveFails)
        /\ UNCHANGED gui_vars

ImageCall == ImageCallWith({FALSE})

ImageCallFailingSave == ImageCallWith(BOOLEAN)

RemainingQuota == get_api_calls_left /\ UNCHANGED gui_vars

ClockAdvance == \E day \in ClockDays : NextDay(day) /\ UNCHANGED gui_vars

ImageRestart ==
    \E readFails \in BOOLEAN :
        ImageHandler_init(readFails, FALSE) /\ UNCHANGED gui_vars

ImageRestartFailingSave ==
    \E readFails \in BOOLEAN : \E saveFails \in BOOLEAN :
        ImageHandler_init(readFails, saveFails) /\ UNCHANGED gui_vars

NextImage ==
    \/ ImageCall
    \/ RemainingQuota
    \/ ImageRestart
    \/ ClockAdvance

SpecImage == Init /\ [][NextImage]_vars

\* the image side when the writes of the counter file may fail
NextImageIO ==
    \/ ImageCallFailingSave
    \/ RemainingQuota
    \/ ImageRestartFailingSave
    \/ ClockAdvance

SpecImageIO == Init /\ [][NextImageIO]_vars

\* the provider answers and the outcomes the GUI is followed with
GuiEventResponses ==
    {resp \in EventResponses :
        resp.kind = "exception" \/ (resp.kind = "ok" /\ Len(resp.items) \in {1, 3})}

GuiSearchResponses ==
    {resp \in SearchResponses :
        resp.kind = "non200" \/ (resp.kind = "ok" /\ Len(resp.items) = 3)}

FindClick ==
    \E d \in Dates : \E resp \in GuiEventResponses :
        /\ EventInputsRead(d[1], d[2], resp, 2025, 0)
        /\ find_events(d[1], d[2], resp, 2025, 0)

SwitchClick == toggle_online_mode

NextClick ==
    \E resp \in GuiEventResponses :
        /\ current_event # <<>>
        /\ IF "month" \in DOMAIN current_event[1]
           THEN EventInputsRead(current_event[1].month, current_event[1].day,
                                resp, 2025, 0)
           ELSE resp.kind = "exception"
        /\ next_event(resp, 2025, 0)

UpdateReturns ==
    \E resp \in GuiSearchResponses : \E dl \in DownloadOutcomes :
        /\ pending # <<>>
        /\ ImageInputsRead(pending[Len(pending)], resp, dl, FALSE)
        /\ \E g \in GetOutcomes : display_event_resume(resp, dl, g)

NextGui ==
    \/ FindClick
    \/ SwitchClick
    \/ NextClick
    \/ UpdateReturns

SpecGui == Init /\ [][NextGui]_vars

----------------------------------------------------------------------------
(* The Record Store on its own: CSVHandler called directly *)

\* how many rows the store is followed up to
MaxStoreRows == 3

\* the dates the store is asked for
LookupDates == Dates \union {<<1, 2>>}

\* the rows add_event is called with: date, year, description
StoreRows ==
    { <<<<"2", "0", "2", "5", "-", "0", "7", "-", "2", "0">>, "1969", "Apollo 11 lands">>,
      <<<<"2", "0", "2", "6", "-", "0", "7", "-", "2", "0">>, "1976", "Viking 1 lands">>,
      <<<<"2", "0", "2", "5", "-", "1", "1", "-", "0", "2">>, "1947", "Spruce Goose flies">> }

\* CSVHandler.add_event(date, year, title, description)
StoreAdd ==
    \E r \in StoreRows :
        /\ Len(events_csv) < MaxStoreRows
        /\ events_csv' = add_event(events_csv, r[1], r[2],
                                   <<"Event from ", r[2]>>, r[3])
        /\ last_events_call' = StoreObservation("add_event", TRUE, 0, 0, <<>>)
        /\ UNCHANGED online_mode
        /\ UNCHANGED image_vars
        /\ UNCHANGED gui_vars

\* CSVHandler.get_events_by_date(month, day); a store file that is missing
\* holds no rows
StoreLookup ==
    \E d \in LookupDates : \E file_exists \in BOOLEAN :
        /\ ~file_exists => events_csv = <<>>
        /\ last_events_call' =
               StoreObservation("csv_get_events_by_date", file_exists, d[1], d[2],
                   CSVHandler_get_events_by_date(file_exists, events_csv,
                                                 d[1], d[2]))
        /\ UNCHANGED <<online_mode, events_csv>>
        /\ UNCHANGED image_vars
        /\ UNCHANGED gui_vars

\* CSVHandler.check_date_exists(month, day)
StoreCheck ==
    \E d \in LookupDates : \E file_exists \in BOOLEAN :
        /\ ~file_exists => events_csv = <<>>
        /\ last_events_call' =
               StoreObservation("csv_check_date_exists", file_exists, d[1], d[2],
                   CSVHandler_check_date_exists(file_exists, events_csv,
                                                d[1], d[2]))
        /\ UNCHANGED <<online_mode, events_csv>>
        /\ UNCHANGED image_vars
        /\ UNCHANGED gui_vars

NextStore ==
    \/ StoreAdd
    \/ StoreLookup
    \/ StoreCheck

SpecStore == Init /\ [][NextStore]_vars

----------------------------------------------------------------------------

(* The Image Cache on its own: _get_cached_url and _cache_url called        *)
(* directly                                                                 *)

\* how many rows the image cache is followed up to
MaxCacheRows == 3

\* the (url, local path) pairs _cache_url is called with
CachedImages ==
    { <<UrlA, download_path(0, DailyMax - 1)>>,
      <<UrlB, download_path(0, DailyMax - 2)>> }

\* the observation an Image Cache operation leaves
CacheObservation(op, query, result) ==
    [op |-> op, query |-> query, result |-> result]

\* ImageHandler._cache_url(query, url, local_path)
CacheStore ==
    \E query \in Queries : \E image \in CachedImages :
        /\ Len(image_cache_csv) < MaxCacheRows
        /\ image_cache_csv' =
               cache_url(image_cache_csv, query, image[1], image[2], today)
        /\ last_image_call' = CacheObservation("_cache_url", query, NoRow)
        /\ UNCHANGED <<today, api_calls_left, api_counter_file, images_dir>>
        /\ UNCHANGED event_vars
        /\ UNCHANGED gui_vars

\* ImageHandler._get_cached_url(query); a cache file that is missing holds
\* no rows and is not opened
CacheLookup ==
    \E query \in Queries : \E file_exists \in BOOLEAN :
        /\ ~file_exists => image_cache_csv = <<>>
        /\ last_image_call' =
               CacheObservation("_get_cached_url", query,
                   IF file_exists THEN get_cached_url(image_cache_csv, query)
                   ELSE NoRow)
        /\ UNCHANGED <<today, api_calls_left, api_counter_file,
                       image_cache_csv, images_dir>>
        /\ UNCHANGED event_vars
        /\ UNCHANGED gui_vars

NextCache ==
    \/ CacheStore
    \/ CacheLookup

SpecCache == Init /\ [][NextCache]_vars

----------------------------------------------------------------------------

(* What the claims speak of, stated without the code's own matching *)

DigitValue(c) == CHOOSE d \in 0..9 : DigitChar(d) = c

\* the month and the day a stored date "YYYY-MM-DD" names
RecordMonth(row) ==
    10 * DigitValue(row.Date[Len(row.Date) - 4]) + DigitValue(row.Date[Len(row.Date) - 3])

RecordDay(row) ==
    10 * DigitValue(row.Date[Len(row.Date) - 1]) + DigitValue(row.Date[Len(row.Date)])

RowIsFor(row, month, day) == RecordMonth(row) = month /\ RecordDay(row) = day

\* the stored events of a date, in store order
StoredEventsFor(month, day) ==
    LET rows == SelectSeq(events_csv, LAMBDA row : RowIsFor(row, month, day))
    IN  [i \in 1..Len(rows) |-> [year |-> rows[i].Year, text |-> rows[i].Description]]

HasRecordFor(month, day) ==
    \E i \in 1..Len(events_csv) : RowIsFor(events_csv[i], month, day)

\* an item of the provider's answer that carries both year and text
CarriesBoth(item) == item.year # Absent /\ item.text # Absent

CompleteItems(items) == SelectSeq(items, CarriesBoth)

\* the year/text pairs of a sequence of events
YearText(events) ==
    [i \in 1..Len(events) |-> [year |-> events[i].year, text |-> events[i].text]]

\* a stored date ends with -MM-DD, two digits each
WellFormedDate(date) ==
    /\ Len(date) >= 7
    /\ date[Len(date) - 5] = "-"
    /\ date[Len(date) - 2] = "-"
    /\ \A k \in {0, 1, 3, 4} :
          \E digit \in 0..9 : date[Len(date) - k] = DigitChar(digit)

\* the image cache holds a row for the query
HasCacheRow(query) ==
    \E i \in 1..Len(image_cache_csv) : image_cache_csv[i].query = query

\* the first row of the query in the image cache file
FirstCacheRow(query) ==
    image_cache_csv[CHOOSE i \in 1..Len(image_cache_csv) :
                        /\ image_cache_csv[i].query = query
                        /\ \A j \in 1..(i - 1) : image_cache_csv[j].query # query]

\* the last operation was an imageFor call
ImageCalled == last_image_call.op = "get_image_base64"

\* the last imageFor call was answered from an image cache row
ServedFromCache ==
    /\ ImageCalled
    /\ last_image_call.searches = 0
    /\ last_image_call.url_result.url # NoUrl

\* the last imageFor call resolved its image through the provider
ResolvedByProvider ==
    /\ ImageCalled
    /\ last_image_call.searches = 1
    /\ last_image_call.result # NoImage

\* this step is a call of eventsByDate(month, day): every other operation of
\* the event side leaves another observation
EventsCallStep(month, day) ==
    /\ last_events_call' # last_events_call
    /\ last_events_call'.op = "get_events_by_date"
    /\ last_events_call'.month = month
    /\ last_events_call'.day = day

\* this step is a call of imageFor(query): every other operation of the
\* image side leaves another observation
ImageCallStep(query) ==
    /\ last_image_call' # last_image_call
    /\ last_image_call'.op = "get_image_base64"
    /\ last_image_call'.query = query

----------------------------------------------------------------------------
(* C1: for every (month, day) with at least one stored record, eventsByDate *)
(* in offline mode returns exactly the stored events of that date and       *)
(* issues no network request, whatever the network would have answered.     *)
C1_OfflineReturnsStored ==
    (/\ last_events_call.op = "get_events_by_date"
     /\ ~online_mode
     /\ HasRecordFor(last_events_call.month, last_events_call.day))
    => /\ last_events_call.result =
              StoredEventsFor(last_events_call.month, last_events_call.day)
       /\ last_events_call.net = 0

C1_Witness ==
    /\ last_events_call.op = "get_events_by_date"
    /\ ~online_mode
    /\ Len(last_events_call.result) = 2
    /\ Len(events_csv) > 2

(* C2: once the store holds a record for (month, day), it keeps holding one *)
(* and every later eventsByDate(month, day), online or offline, performs    *)
(* zero network calls.                                                      *)
C2_CachedDateNoNetwork ==
    [][\A d \in Dates :
          HasRecordFor(d[1], d[2]) =>
              /\ HasRecordFor(d[1], d[2])'
              /\ EventsCallStep(d[1], d[2]) => last_events_call'.net = 0]_vars

C2_Witness ==
    /\ last_events_call.op = "get_events_by_date"
    /\ online_mode
    /\ last_events_call.net = 0
    /\ last_events_call.result # <<>>
    /\ HasRecordFor(last_events_call.month, last_events_call.day)

(* C3: an imageFor(query) call answered from an image cache row leaves the  *)
(* remaining quota, in memory and in the counter file, as it was.           *)
C3_CacheHitKeepsQuota ==
    [][\A q \in Queries :
          (HasCacheRow(q) /\ ImageCallStep(q))
          => /\ api_calls_left' = api_calls_left
             /\ api_counter_file' = api_counter_file]_vars

C3_Witness ==
    /\ ServedFromCache
    /\ last_image_call.result # NoImage
    /\ api_calls_left < DailyMax

(* C4: when the remaining quota is 0 or less, imageFor(query) for a query   *)
(* without cache row returns none and issues no search request, no download *)
(* and no other network request.                                            *)
C4_ExhaustedQuotaNoNetwork ==
    [][\A q \in Queries :
          (/\ api_calls_left <= 0
           /\ ~HasCacheRow(q)
           /\ ImageCallStep(q))
          => /\ last_image_call'.result = NoImage
             /\ last_image_call'.searches = 0
             /\ last_image_call'.downloads = 0
             /\ last_image_call'.gets = 0]_vars

C4_Witness ==
    /\ ImageCalled
    /\ api_calls_left = 0
    /\ ~HasCacheRow(last_image_call.query)
    /\ last_image_call.searches = 0
    /\ last_image_call.result = NoImage

(* C5: within one calendar day the value remainingQuota() reports never     *)
(* increases, over imageFor calls, restarts and failures to read the        *)
(* counter file.                                                            *)
C5_QuotaNeverIncreasesWithinDay ==
    [][today' = today => api_calls_left' <= api_calls_left]_vars

(* C6: every quota entry point checks the reset: when the persisted         *)
(* last-reset date is earlier than the current date, remaining() reports    *)
(* the daily maximum and imageFor starts from the daily maximum.            *)
C6_ResetOnEveryEntryPoint ==
    [][(/\ api_counter_file.state = "ok"
        /\ api_counter_file.last_reset < today)
       => /\ RemainingQuota => last_image_call'.value = DailyMax
          /\ (\E q \in Queries : ImageCallStep(q))
             => api_calls_left' >= DailyMax - 1]_vars

(* C7: the quota counter is decremented exactly once for every image search *)
(* request that reaches the provider, whatever the outcome (usable result,  *)
(* no usable result, non-success status).                                   *)
C7_DecrementPerReachedSearch ==
    [][\A q \in Queries :
          (/\ ImageCallStep(q)
           /\ last_image_call'.search_status \in {"200", "non200"})
          => api_calls_left' = api_calls_left - 1]_vars

(* C7, amended: the quota counter is decremented exactly once for every     *)
(* image search request answered with status 200, with or without a usable  *)
(* result; the counter and its file are left alone when the search gets     *)
(* another status or fails in transport, or when no search is issued; an    *)
(* imageFor call issues at most one search.                                 *)
C7_DecrementPerAnsweredSearch ==
    [][\A q \in Queries :
          ImageCallStep(q)
          => /\ last_image_call'.searches \in {0, 1}
             /\ last_image_call'.searches = 0
                    <=> last_image_call'.search_status = "none"
             /\ IF last_image_call'.search_status = "200"
                THEN api_calls_left' = api_calls_left - 1
                ELSE /\ api_calls_left' = api_calls_left
                     /\ api_counter_file' = api_counter_file]_vars

C7_Witness ==
    /\ ImageCalled
    /\ last_image_call.search_status = "200"
    /\ last_image_call.downloads > 0
    /\ last_image_call.result = NoImage
    /\ api_calls_left = DailyMax - 1

(* C8: for any starting quota of at least 1, when an imageFor(query)        *)
(* resolved the image through the provider, the imageFor(query) that        *)
(* follows it at once returns the same image and consumes no quota.         *)
C8_SecondCallFromCache ==
    [][\A q \in Queries :
          (/\ ResolvedByProvider
           /\ last_image_call.query = q
           /\ ImageCallStep(q))
          => /\ last_image_call'.result = last_image_call.result
             /\ last_image_call'.searches = 0
             /\ api_calls_left' = api_calls_left]_vars

(* C9: an image cache row whose timestamp is more than 7 days before now is *)
(* never what a lookup returns: no imageFor call is answered from it.       *)
C9_StaleRowNotReturned ==
    ServedFromCache
    => today - FirstCacheRow(last_image_call.query).timestamp <= TTLDays

(* C10: an image cache row whose local file no longer exists is never what  *)
(* a lookup returns: every path an imageFor call resolves names a file on   *)
(* disk.                                                                    *)
C10_DanglingRowNotReturned ==
    (ImageCalled /\ last_image_call.url_result.url # NoUrl)
    => last_image_call.url_result.local_path \in DOMAIN images_dir

(* C11: when eventsByDate(month, day) is called online for a date with no   *)
(* stored record, the provider answers successfully and the appends         *)
(* succeed, the call returns the k items that carry both year and text, in  *)
(* provider order, and appends exactly k records, each with the zero-padded *)
(* suffix -MM-DD of the requested date, so that the store's lookup for the  *)
(* date then yields the same year/text pairs in the same order.             *)
C11_FetchReturnsAndStores ==
    [][\A d \in Dates :
          (/\ online_mode
           /\ ~HasRecordFor(d[1], d[2])
           /\ EventsCallStep(d[1], d[2])
           /\ last_events_call'.answer.kind = "ok"
           /\ ~last_events_call'.store_error)
          => LET complete == CompleteItems(last_events_call'.answer.items)
                 old == Len(events_csv)
             IN  /\ YearText(last_events_call'.result) = complete
                 /\ Len(events_csv') = old + Len(complete)
                 /\ SubSeq(events_csv', 1, old) = events_csv
                 /\ \A i \in (old + 1)..Len(events_csv') :
                       /\ WellFormedDate(events_csv'[i].Date)
                       /\ RowIsFor(events_csv'[i], d[1], d[2])
                 /\ StoredEventsFor(d[1], d[2])' = complete]_vars

C11_Witness ==
    /\ last_events_call.op = "get_events_by_date"
    /\ last_events_call.net = 1
    /\ Len(last_events_call.answer.items) = 3
    /\ Len(last_events_call.result) = 2
    /\ Len(events_csv) > 2
    /\ StoredEventsFor(last_events_call.month, last_events_call.day)
           = YearText(last_events_call.result)

(* C12: when the request to the event provider fails in transport, gets a   *)
(* non-success status or a body that does not parse or lacks the expected   *)
(* keys, eventsByDate returns the empty sequence and no exception reaches   *)
(* the caller.                                                              *)
C12_ProviderFailureGivesEmpty ==
    (/\ last_events_call.op = "get_events_by_date"
     /\ last_events_call.answer.kind
            \in {"exception", "non200", "badformat", "badjson"})
    => /\ last_events_call.result = <<>>
       /\ ~last_events_call.raised

C12_Witness ==
    /\ last_events_call.op = "get_events_by_date"
    /\ last_events_call.net = 1
    /\ last_events_call.answer.kind = "badjson"
    /\ last_events_call.result = <<>>
    /\ events_csv # <<>>

(* C13: every event eventsByDate(month, day) returns, fetched or served     *)
(* from the store, online or offline, carries year, text, day and month,    *)
(* with day and month those of the request.                                 *)
C13_EventsCarryDate ==
    last_events_call.op = "get_events_by_date"
    => \A i \in 1..Len(last_events_call.result) :
          /\ DOMAIN last_events_call.result[i] = {"year", "text", "day", "month"}
          /\ last_events_call.result[i].day = last_events_call.day
          /\ last_events_call.result[i].month = last_events_call.month

(* C14: while the application is in offline mode (the user switched it     *)
(* offline and not back), no event or image resolution that starts issues a *)
(* network call.                                                            *)
C14_OfflineNoNetwork ==
    [][(~is_online /\ ~is_online' /\ pending = <<>>)
       => /\ last_events_call' # last_events_call
                => last_events_call'.net = 0
          /\ last_image_call' # last_image_call
                => /\ last_image_call'.searches = 0
                   /\ last_image_call'.downloads = 0
                   /\ last_image_call'.gets = 0]_vars

(* C15: the Record Store is append-only: over every operation the stored    *)
(* record sequence before it is a prefix of the one after it.               *)
C15_StoreAppendOnly ==
    [][/\ Len(events_csv') >= Len(events_csv)
       /\ SubSeq(events_csv', 1, Len(events_csv)) = events_csv]_vars

C15_Witness ==
    /\ last_events_call.op = "init"
    /\ Len(events_csv) >= 3
    /\ HasRecordFor(7, 20)
    /\ HasRecordFor(11, 2)

(* C16: the result of an image fetch issued for an event the user has      *)
(* navigated away from is discarded: once no fetch is in progress, a        *)
(* displayed image is one fetched for the query of the current event.       *)
C16_StaleFetchDiscarded ==
    (pending = <<>> /\ image_canvas.image # NoImage)
    => /\ current_event # <<>>
       /\ image_canvas.query = QueryOf(current_event[1])

(* C17: when an append of fetched events to the Record Store fails with an  *)
(* I/O error, eventsByDate does not return normally: the error reaches the  *)
(* caller.                                                                  *)
C17_AppendFailurePropagates ==
    (/\ last_events_call.op = "get_events_by_date"
     /\ last_events_call.store_error)
    => last_events_call.raised

(* C19: randomEvent() in offline mode on a Record Store without records     *)
(* returns none and raises no error.                                        *)
C19_RandomOnEmptyStore ==
    (/\ last_events_call.op = "get_random_event"
     /\ ~online_mode
     /\ events_csv = <<>>)
    => /\ last_events_call.result = <<>>
       /\ ~last_events_call.raised

C19_Witness ==
    /\ last_events_call.op = "get_random_event"
    /\ ~online_mode
    /\ events_csv = <<>>
    /\ last_events_call.net = 0
    /\ last_events_call.result = <<>>

(* C18: an imageFor(query) call that hits the Image Cache returns the bytes *)
(* of the cached local file and issues no network request.                  *)
C18_CacheHitLocalOnly ==
    ServedFromCache
    => /\ last_image_call.searches = 0
       /\ last_image_call.downloads = 0
       /\ last_image_call.gets = 0
       /\ last_image_call.url_result.local_path \in DOMAIN images_dir
       /\ last_image_call.result =
              Base64(images_dir[last_image_call.url_result.local_path])

(* C20: consumeOne() lowers the remaining quota by exactly 1 when it is     *)
(* positive and leaves it at 0 otherwise, after it returns the persisted    *)
(* calls_left equals the in-memory value, and the remaining quota always    *)
(* stays between 0 and the daily maximum.                                   *)
C20_ConsumeOnePersists ==
    [][/\ (\E q \in Queries :
              /\ ImageCallStep(q)
              /\ last_image_call'.search_status = "200")
          => /\ api_calls_left' =
                    IF api_calls_left > 0 THEN api_calls_left - 1 ELSE 0
             /\ api_counter_file'.state = "ok"
             /\ api_counter_file'.calls_left = api_calls_left'
       /\ api_calls_left' \in 0..DailyMax]_vars

\* the path of a URL: its pieces before the query separator
RECURSIVE UrlPath(_)
UrlPath(url) ==
    IF url = <<>> \/ Head(url) = "?" THEN <<>>
    ELSE <<Head(url)>> \o UrlPath(Tail(url))

\* the URL path of a candidate has the required extension
PathIsPng(item) ==
    /\ item.has_link
    /\ EndsWith(Lower(UrlPath(item.link)), <<".png">>)

\* the candidates of the last search whose URL path has the extension
PathMatches ==
    { i \in 1..Len(last_image_call.candidates) :
          PathIsPng(last_image_call.candidates[i]) }

\* the last imageFor call ran a search that answered a list of candidates,
\* each carrying a link
SearchedCandidates ==
    /\ ImageCalled
    /\ last_image_call.search_status = "200"
    /\ last_image_call.candidates # <<>>
    /\ \A i \in 1..Len(last_image_call.candidates) :
           last_image_call.candidates[i].has_link

(* C21: after a successful remote image search, imageFor selects the first  *)
(* candidate in provider order whose URL path has the required extension:   *)
(* when that candidate can be downloaded it is the one returned and         *)
(* registered in the Image Cache; when no candidate has the extension the   *)
(* call returns none and adds no cache entry.                               *)
C21_FirstPathMatchSelected ==
    SearchedCandidates
    => IF PathMatches = {}
       THEN /\ last_image_call.url_result.url = NoUrl
            /\ ~HasCacheRow(last_image_call.query)
       ELSE LET first == last_image_call.candidates[
                             CHOOSE i \in PathMatches :
                                 \A j \in PathMatches : i <= j].link
            IN  first \in last_image_call.downloadable
                => /\ last_image_call.url_result.url = first
                   /\ HasCacheRow(last_image_call.query)
                   /\ FirstCacheRow(last_image_call.query).url = first

\* the last handler of the GUI was "next" on a current event
NextPressed ==
    /\ last_gui_call.op = "next_event"
    /\ last_gui_call.before # <<>>

(* C22: "next" among the events of the current date clamps at the bounds:   *)
(* the handler ends without an exception, the event that was current is     *)
(* found among its siblings by value equality, and the current event then   *)
(* is the sibling after it, or the same event when it was the last one.     *)
C22_NextClampsAmongSiblings ==
    NextPressed
    => /\ ~last_gui_call.raised
       /\ last_gui_call.siblings # <<>>
          => \E i \in 1..Len(last_gui_call.siblings) :
                /\ last_gui_call.siblings[i] = last_gui_call.before[1]
                /\ current_event =
                       IF i < Len(last_gui_call.siblings)
                       THEN <<last_gui_call.siblings[i + 1]>>
                       ELSE last_gui_call.before

\* the last imageFor call missed the cache with quota left and its search
\* failed in transport or got a non-success status
SearchFailed ==
    /\ ImageCalled
    /\ last_image_call.searches = 1
    /\ last_image_call.search_status \in {"exception", "non200"}

(* C23: on a cache miss with quota available, a transport failure or a      *)
(* non-success status of the remote image search makes imageFor return      *)
(* none, and no exception reaches the caller.                               *)
C23_SearchFailureGivesNone ==
    SearchFailed
    => /\ last_image_call.result = NoImage
       /\ ~last_image_call.raised
       /\ last_image_call.downloads = 0
       /\ last_image_call.gets = 0

C23_Witness ==
    /\ SearchFailed
    /\ last_image_call.search_status = "non200"
    /\ last_image_call.url_result.kind = "none"
    /\ last_image_call.result = NoImage

(* C24: eventsFor(month, day) on the Record Store returns exactly the       *)
(* stored records of that date, in store insertion order, and               *)
(* hasEvents(month, day) is true iff that sequence is non-empty; a missing  *)
(* store file gives the empty sequence and false.                           *)
C24_StoreLookupExact ==
    /\ last_events_call.op = "csv_get_events_by_date"
       => /\ last_events_call.result =
                 StoredEventsFor(last_events_call.month, last_events_call.day)
          /\ ~last_events_call.file_exists => last_events_call.result = <<>>
    /\ last_events_call.op = "csv_check_date_exists"
       => /\ last_events_call.result =
                 (StoredEventsFor(last_events_call.month,
                                  last_events_call.day) # <<>>)
          /\ ~last_events_call.file_exists => last_events_call.result = FALSE

C24_Witness ==
    /\ last_events_call.op = "csv_get_events_by_date"
    /\ Len(last_events_call.result) = 2
    /\ Len(events_csv) = 3
    /\ last_events_call.result[1].year # last_events_call.result[2].year

\* the rows of the query in the image cache file, in file order
CacheRowsOf(query) ==
    SelectSeq(image_cache_csv, LAMBDA row : row.query = query)

(* C25: when several Image Cache rows exist for the same query, lookup      *)
(* returns the row that was stored first, and store never removes or        *)
(* replaces an existing row: the rows present before any step are still     *)
(* there, in place, after it.                                               *)
C25_FirstWriteWins ==
    [][/\ last_image_call'.op = "_get_cached_url"
          => /\ image_cache_csv' = image_cache_csv
             /\ last_image_call'.result =
                    IF CacheRowsOf(last_image_call'.query) = <<>> THEN NoRow
                    ELSE CacheRowsOf(last_image_call'.query)[1]
       /\ Len(image_cache_csv') >= Len(image_cache_csv)
       /\ SubSeq(image_cache_csv', 1, Len(image_cache_csv)) = image_cache_csv
       /\ last_image_call'.op = "_cache_url"
          => Len(image_cache_csv') = Len(image_cache_csv) + 1]_vars

C25_Witness ==
    /\ last_image_call.op = "_get_cached_url"
    /\ Len(CacheRowsOf(last_image_call.query)) >= 2
    /\ CacheRowsOf(last_image_call.query)[1].url
           # CacheRowsOf(last_image_call.query)[2].url
    /\ last_image_call.result = CacheRowsOf(last_image_call.query)[1]

\* the day a downloaded file was written, read from its name
DownloadDay(local_path) == local_path[2]

(* C26: at startup only downloaded image files older than 7 days are        *)
(* purged: a file downloaded less than 7 days before an application start   *)
(* still exists, with its content, after that start.                        *)
C26_RecentFilesSurviveStart ==
    [][last_image_call'.op = "init"
       => \A p \in DOMAIN images_dir :
              today - DownloadDay(p) < TTLDays
              => /\ p \in DOMAIN images_dir'
                 /\ images_dir'[p] = images_dir[p]]_vars

\* this step is an imageFor call that downloaded an image
DownloadStep ==
    /\ \E q \in Queries : ImageCallStep(q)
    /\ last_image_call'.searches = 1
    /\ last_image_call'.url_result.url # NoUrl

(* C27: each successful download is written to a uniquely named local file: *)
(* the path a download writes names no file of an earlier download of the   *)
(* run, and every such file is still there with its content afterwards.     *)
C27_DownloadPathsUnique ==
    [][DownloadStep
       => /\ last_image_call'.url_result.local_path \notin DOMAIN images_dir
          /\ last_image_call'.url_result.local_path \in DOMAIN images_dir'
          /\ \A p \in DOMAIN images_dir :
                 /\ p \in DOMAIN images_dir'
                 /\ images_dir'[p] = images_dir[p]]_vars

C27_Witness ==
    /\ ResolvedByProvider
    /\ last_image_call.url_result.local_path \in DOMAIN images_dir
    /\ Cardinality(DOMAIN images_dir) = 2
    /\ Len(image_cache_csv) = 2
    /\ image_cache_csv[1].local_path # image_cache_csv[2].local_path

\* the stored rows of a date, in store order
StoredRowsFor(month, day) ==
    SelectSeq(events_csv, LAMBDA row : RowIsFor(row, month, day))

(* C28: records for a given (month, day) are appended by at most one        *)
(* eventsByDate call: once the Record Store holds any record for a date, no *)
(* later eventsByDate or randomEvent call, online or offline, changes the   *)
(* store's records of that date.                                            *)
C28_DateStoredOnce ==
    [][\A d \in Dates :
           HasRecordFor(d[1], d[2])
           => StoredRowsFor(d[1], d[2])' = StoredRowsFor(d[1], d[2])]_vars

C28_Witness ==
    /\ \A d \in Dates : HasRecordFor(d[1], d[2])
    /\ last_events_call.op = "get_random_event"
    /\ last_events_call.month # 0
    /\ last_events_call.net = 0
    /\ last_events_call.result # <<>>
    /\ Len(StoredRowsFor(last_events_call.month, last_events_call.day)) >= 2

(* C29: get_image_url returns a pair on every path, (url, local path) of    *)
(* the resolved image or (None, None): a non-success search response, an    *)
(* exhausted quota, a search without usable candidate and a failed download *)
(* all give (None, None).                                                   *)
C29_AlwaysReturnsPair ==
    ImageCalled
    => last_image_call.url_result.kind = "pair"

====
